---- MODULE Spec2Model ----
(***************************************************************************)
(* A model of main.py: the JSON -> XML -> DOCX conversion service.         *)
(*                                                                         *)
(* A Python str is a sequence of one-character strings, so that replace,   *)
(* strip, split, startswith and the XML (de)serialisers are computed       *)
(* character by character, as the code computes them.                      *)
(***************************************************************************)
EXTENDS Integers, Sequences, FiniteSets, TLC

VARIABLES pc, filename, content, json_data, via, root_element, rough_string,
          xml_content, root, doc, exc, response

vars == <<pc, filename, content, json_data, via, root_element, rough_string,
          xml_content, root, doc, exc, response>>

(***************************************************************************)
(* Bounds of the model.                                                    *)
(***************************************************************************)
MaxKeyLen == 2
MaxListLen == 2
MaxPieces == 3
MaxNameParts == 3
MaxChildren == 2

(***************************************************************************)
(* Characters and strings.                                                 *)
(***************************************************************************)
Lower == {"a","b","c","d","e","f","g","h","i","j","k","l","m",
          "n","o","p","q","r","s","t","u","v","w","x","y","z"}
Upper == {"A","B","C","D","E","F","G","H","I","J","K","L","M",
          "N","O","P","Q","R","S","T","U","V","W","X","Y","Z"}
Digits == <<"0","1","2","3","4","5","6","7","8","9">>
DigitSet == {Digits[i] : i \in 1..10}
\* the control character U+0001
SOH == "U+0001"
\* str.strip() and str.isspace(): the whitespace characters of the model
Whitespace == {" ", "\n", "\t"}

None == <<>>
Some(x) == <<x>>

\* s[i:] and s[:n]
Drop(s, n) == IF n >= Len(s) THEN <<>> ELSE SubSeq(s, n + 1, Len(s))
Take(s, n) == IF n >= Len(s) THEN s ELSE SubSeq(s, 1, n)

\* str.startswith / str.endswith
StartsWith(s, p) == Len(p) <= Len(s) /\ SubSeq(s, 1, Len(p)) = p
EndsWith(s, p) == Len(p) <= Len(s) /\ SubSeq(s, Len(s) - Len(p) + 1, Len(s)) = p

\* str.replace(old, new): every non-overlapping occurrence, left to right
RECURSIVE Replace(_, _, _)
Replace(s, old, new) ==
    IF s = <<>> THEN <<>>
    ELSE IF StartsWith(s, old) THEN new \o Replace(Drop(s, Len(old)), old, new)
    ELSE <<Head(s)>> \o Replace(Tail(s), old, new)

RECURSIVE LStrip(_)
LStrip(s) == IF s # <<>> /\ Head(s) \in Whitespace THEN LStrip(Tail(s)) ELSE s
RECURSIVE RStrip(_)
RStrip(s) ==
    IF s # <<>> /\ s[Len(s)] \in Whitespace THEN RStrip(Take(s, Len(s) - 1)) ELSE s
\* str.strip()
Strip(s) == RStrip(LStrip(s))

\* str.split('\n')
RECURSIVE SplitLines(_, _)
SplitLines(s, cur) ==
    IF s = <<>> THEN <<cur>>
    ELSE IF Head(s) = "\n" THEN <<cur>> \o SplitLines(Tail(s), <<>>)
    ELSE SplitLines(Tail(s), Append(cur, Head(s)))

\* '\n'.join(lines)
RECURSIVE JoinLines(_)
JoinLines(lines) ==
    IF lines = <<>> THEN <<>>
    ELSE IF Len(lines) = 1 THEN lines[1]
    ELSE lines[1] \o <<"\n">> \o JoinLines(Tail(lines))

\* the concatenation of a sequence of sequences
RECURSIVE Flatten(_)
Flatten(ss) == IF ss = <<>> THEN <<>> ELSE Head(ss) \o Flatten(Tail(ss))

\* str(n) of an int
RECURSIVE NatStr(_)
NatStr(n) == IF n < 10 THEN <<Digits[n + 1]>> ELSE NatStr(n \div 10) \o <<Digits[(n % 10) + 1]>>
IntStr(n) == IF n < 0 THEN <<"-">> \o NatStr(0 - n) ELSE NatStr(n)

\* every sequence over S of length at most n
RECURSIVE SeqsUpTo(_, _)
SeqsUpTo(S, n) == IF n = 0 THEN {<<>>} ELSE [1..n -> S] \cup SeqsUpTo(S, n - 1)

(***************************************************************************)
(* JSON values, as json.loads returns them: None, bool, int, str, list,    *)
(* dict (a dict keeps its keys in insertion order and has no key twice).   *)
(***************************************************************************)
JNull == [t |-> "null", v |-> <<>>]
JBool(b) == [t |-> "bool", v |-> b]
JInt(n) == [t |-> "int", v |-> n]
JStr(s) == [t |-> "str", v |-> s]
JList(items) == [t |-> "list", v |-> items]
JDict(pairs) == [t |-> "dict", v |-> pairs]

IsScalar(d) == d.t \in {"null", "bool", "int", "str"}

\* str(data) of a primitive value
PyStr(d) ==
    CASE d.t = "null" -> <<"N","o","n","e">>
      [] d.t = "bool" -> IF d.v THEN <<"T","r","u","e">> ELSE <<"F","a","l","s","e">>
      [] d.t = "int" -> IntStr(d.v)
      [] d.t = "str" -> d.v

(***************************************************************************)
(* JSONToXMLConverter                                                      *)
(***************************************************************************)
\* self.replacements, in insertion order
replacements == << <<"_", ":">>, <<"$", "@">> >>

RECURSIVE ApplyRules(_, _)
ApplyRules(text, rules) ==
    IF rules = <<>> THEN text
    ELSE ApplyRules(Replace(text, <<Head(rules)[1]>>, <<Head(rules)[2]>>), Tail(rules))

\* a variant that stops after the first rule
apply_replacements_first_rule_only(text) == ApplyRules(text, Take(replacements, 1))

apply_replacements(text) == ApplyRules(text, replacements)

\* a variant that tests the text as it is, without strip()
is_xml_content_no_strip(d) ==
    /\ d.t = "str"
    /\ StartsWith(d.v, <<"<","?","x","m","l">>)
    /\ EndsWith(d.v, <<">">>)

is_xml_content(d) ==
    /\ d.t = "str"
    /\ StartsWith(Strip(d.v), <<"<","?","x","m","l">>)
    /\ EndsWith(Strip(d.v), <<">">>)

\* the characters the pattern [^a-zA-Z0-9:@._-] does not match
NameChars == Lower \cup Upper \cup DigitSet \cup {":", "@", ".", "_", "-"}

\* re.sub(r'[^a-zA-Z0-9:@._-]', '_', name)
Sanitize(name) == [i \in 1..Len(name) |-> IF name[i] \in NameChars THEN name[i] ELSE "_"]

ItemPrefix == <<"i","t","e","m","_">>

\* lines 59-64: the element's name
CleanElementName(element_name) ==
    LET clean == Sanitize(apply_replacements(element_name))
    IN  IF clean # <<>> /\ clean[1] \in DigitSet THEN ItemPrefix \o clean ELSE clean

\* ET.Element(tag): no attributes, no text, no children, no tail
Element(tag) == [tag |-> tag, attrib |-> <<>>, text |-> None, children |-> <<>>, tail |-> None]

\* a variant that names an array's children after the array's own name
RECURSIVE json_to_xml_element_key_named(_, _)
json_to_xml_element_key_named(data, element_name) ==
    LET element == Element(CleanElementName(element_name))
    IN  CASE data.t = "dict" ->
               [element EXCEPT !.children =
                  [i \in 1..Len(data.v) |->
                     json_to_xml_element_key_named(data.v[i][2], data.v[i][1])]]
          [] data.t = "list" ->
               [element EXCEPT !.children =
                  [i \in 1..Len(data.v) |->
                     json_to_xml_element_key_named(data.v[i], element_name)]]
          [] OTHER ->
               [element EXCEPT !.text = Some(apply_replacements(PyStr(data)))]

RECURSIVE json_to_xml_element(_, _)
json_to_xml_element(data, element_name) ==
    LET element == Element(CleanElementName(element_name))
    IN  CASE data.t = "dict" ->
               [element EXCEPT !.children =
                  [i \in 1..Len(data.v) |->
                     json_to_xml_element(data.v[i][2], data.v[i][1])]]
          [] data.t = "list" ->
               [element EXCEPT !.children =
                  [i \in 1..Len(data.v) |->
                     json_to_xml_element(data.v[i], ItemPrefix \o IntStr(i - 1))]]
          [] OTHER ->
               [element EXCEPT !.text = Some(apply_replacements(PyStr(data)))]

(***************************************************************************)
(* The standard library's XML writer and parser, on the strings the model  *)
(* builds: they hold no attribute (but the declaration's version), no      *)
(* comment, CDATA section or DOCTYPE, no namespace declaration, and "<?"   *)
(* only where an XML declaration begins.                                   *)
(***************************************************************************)
\* ElementTree._escape_cdata
EscapeCdataChar(c) ==
    CASE c = "&" -> <<"&","a","m","p",";">>
      [] c = "<" -> <<"&","l","t",";">>
      [] c = ">" -> <<"&","g","t",";">>
      [] OTHER -> <<c>>
_escape_cdata(text) == Flatten([i \in 1..Len(text) |-> EscapeCdataChar(text[i])])

\* minidom._write_data: as _escape_cdata, and '"' too
WriteDataChar(c) == IF c = "\"" THEN <<"&","q","u","o","t",";">> ELSE EscapeCdataChar(c)
_write_data(data) == Flatten([i \in 1..Len(data) |-> WriteDataChar(data[i])])

\* an Optional[str] as a str: None is ''
OrEmpty(opt) == IF opt = None THEN <<>> ELSE opt[1]

\* ET.tostring(element, encoding='unicode'): ElementTree._serialize_xml
RECURSIVE _serialize_xml(_)
_serialize_xml(elem) ==
    <<"<">> \o elem.tag \o
    (IF OrEmpty(elem.text) # <<>> \/ elem.children # <<>>
     THEN <<">">> \o _escape_cdata(OrEmpty(elem.text))
          \o Flatten([i \in 1..Len(elem.children) |-> _serialize_xml(elem.children[i])])
          \o <<"<","/">> \o elem.tag \o <<">">>
     ELSE <<" ","/",">">>)
    \o _escape_cdata(OrEmpty(elem.tail))

\* what expat accepts as an element name when no namespace prefix is declared
ValidName(name) ==
    /\ name # <<>>
    /\ name[1] \in Lower \cup Upper \cup {"_"}
    /\ \A i \in 1..Len(name) : name[i] \in Lower \cup Upper \cup DigitSet \cup {".", "-", "_"}

\* the index of the first character at or after i that is in S, or Len(s) + 1
RECURSIVE FindIn(_, _, _)
FindIn(s, i, S) == IF i > Len(s) \/ s[i] \in S THEN i ELSE FindIn(s, i + 1, S)
\* the index of the first character at or after i that is not whitespace
RECURSIVE SkipSpace(_, _)
SkipSpace(s, i) == IF i <= Len(s) /\ s[i] \in Whitespace THEN SkipSpace(s, i + 1) ELSE i

At(s, i) == IF i >= 1 /\ i <= Len(s) THEN s[i] ELSE ""

ParseFailed == [ok |-> FALSE, root |-> Element(<<>>)]

\* character data: the text of the open element, or the tail of its last child
AddData(frame, data) ==
    IF frame.children = <<>>
    THEN [frame EXCEPT !.text = Some(OrEmpty(frame.text) \o data)]
    ELSE [frame EXCEPT !.children[Len(frame.children)].tail =
                          Some(OrEmpty(frame.children[Len(frame.children)].tail) \o data)]

Entities == << <<<<"l","t">>, "<">>, <<<<"g","t">>, ">">>, <<<<"a","m","p">>, "&">>,
               <<<<"q","u","o","t">>, "\"">>, <<<<"a","p","o","s">>, "'">> >>

\* an element ended: it joins its parent's children, or is the document element
CloseElement(stack, elem) ==
    IF Len(stack) = 1 THEN <<>>
    ELSE LET parent == stack[Len(stack) - 1]
         IN  Append(Take(stack, Len(stack) - 2),
                    [parent EXCEPT !.children = Append(parent.children, elem)])

\* the parser from position i on: stack holds the open elements, rootOpt the
\* document element once it has ended
RECURSIVE ParseFrom(_, _, _, _)
ParseFrom(s, i, stack, rootOpt) ==
    IF i > Len(s)
    THEN IF stack = <<>> /\ rootOpt # None THEN [ok |-> TRUE, root |-> rootOpt[1]]
         ELSE ParseFailed
    ELSE
    LET c == s[i]
        top == stack[Len(stack)]
        data(d, j) == ParseFrom(s, j, [stack EXCEPT ![Len(stack)] = AddData(top, d)], rootOpt)
    IN  CASE c = SOH -> ParseFailed
          [] c = "<" /\ At(s, i + 1) = "?" -> ParseFailed
          [] c = "<" /\ At(s, i + 1) = "/" ->
               LET e == FindIn(s, i + 2, Whitespace \cup {"/", ">", "<"})
                   name == SubSeq(s, i + 2, e - 1)
                   j == SkipSpace(s, e)
               IN  IF stack # <<>> /\ top.tag = name /\ At(s, j) = ">"
                   THEN ParseFrom(s, j + 1, CloseElement(stack, top),
                                  IF Len(stack) = 1 THEN Some(top) ELSE rootOpt)
                   ELSE ParseFailed
          [] c = "<" ->
               LET e == FindIn(s, i + 1, Whitespace \cup {"/", ">", "<"})
                   name == SubSeq(s, i + 1, e - 1)
                   j == SkipSpace(s, e)
                   elem == Element(name)
               IN  IF ~ValidName(name) \/ (stack = <<>> /\ rootOpt # None) THEN ParseFailed
                   ELSE IF At(s, j) = ">" THEN ParseFrom(s, j + 1, Append(stack, elem), rootOpt)
                   ELSE IF At(s, j) = "/" /\ At(s, j + 1) = ">"
                        THEN ParseFrom(s, j + 2, CloseElement(Append(stack, elem), elem),
                                       IF stack = <<>> THEN Some(elem) ELSE rootOpt)
                   ELSE ParseFailed
          [] c = "&" ->
               LET e == FindIn(s, i + 1, {";"})
                   name == SubSeq(s, i + 1, e - 1)
                   hit == {k \in 1..Len(Entities) : Entities[k][1] = name}
               IN  IF e > Len(s) \/ hit = {} \/ stack = <<>> THEN ParseFailed
                   ELSE data(<<Entities[CHOOSE k \in hit : TRUE][2]>>, e + 1)
          [] OTHER ->
               IF stack = <<>>
               THEN IF c \in Whitespace THEN ParseFrom(s, i + 1, stack, rootOpt) ELSE ParseFailed
               ELSE data(<<c>>, i + 1)

\* <?xml version="1.0"?>, as a caller may write it
XmlDecl == <<"<","?","x","m","l"," ","v","e","r","s","i","o","n","=","\"","1",".","0","\"","?",">">>
\* <?xml version="1.0" ?>, as minidom writes it
XmlDeclMinidom == <<"<","?","x","m","l"," ","v","e","r","s","i","o","n","=","\"","1",".","0","\""," ","?",">">>

\* expat on a whole document: an XML declaration may only start the document
ParseXML(s) ==
    IF StartsWith(s, XmlDecl) THEN ParseFrom(s, Len(XmlDecl) + 1, <<>>, None)
    ELSE IF StartsWith(s, XmlDeclMinidom) THEN ParseFrom(s, Len(XmlDeclMinidom) + 1, <<>>, None)
    ELSE ParseFrom(s, 1, <<>>, None)

Indent(level) == Flatten([i \in 1..level |-> <<" ", " ">>])

\* minidom's Element.writexml and Text.writexml with addindent '  ' and newl '\n',
\* on the DOM of elem: its text, then each child followed by its tail
RECURSIVE writexml(_, _)
writexml(elem, level) ==
    LET text == OrEmpty(elem.text)
        kids == elem.children
        textNode(data) == IF data = <<>> THEN <<>>
                          ELSE _write_data(Indent(level + 1) \o data \o <<"\n">>)
    IN  Indent(level) \o <<"<">> \o elem.tag \o
        (IF text = <<>> /\ kids = <<>> THEN <<"/",">","\n">>
         ELSE <<">">> \o
              (IF kids = <<>> THEN _write_data(text)
               ELSE <<"\n">> \o textNode(text)
                    \o Flatten([i \in 1..Len(kids) |->
                                  writexml(kids[i], level + 1) \o textNode(OrEmpty(kids[i].tail))])
                    \o Indent(level))
              \o <<"<","/">> \o elem.tag \o <<">","\n">>)

\* Document.toprettyxml(indent="  ")
toprettyxml(dom_root) == XmlDeclMinidom \o <<"\n">> \o writexml(dom_root, 0)

\* [line for line in lines if line.strip()]
RECURSIVE NonBlank(_)
NonBlank(lines) ==
    IF lines = <<>> THEN <<>>
    ELSE (IF Strip(Head(lines)) # <<>> THEN <<Head(lines)>> ELSE <<>>) \o NonBlank(Tail(lines))

(***************************************************************************)
(* XMLToDocxConverter                                                      *)
(***************************************************************************)
Paragraph(style, text) == [style |-> style, text |-> text]

\* doc.add_heading('XML Document Content', 0)
Heading == Paragraph("Title", <<"X","M","L"," ","D","o","c","u","m","e","n","t"," ",
                                "C","o","n","t","e","n","t">>)
\* doc.add_paragraph("Raw XML Content:")
RawMarker == Paragraph("Normal", <<"R","a","w"," ","X","M","L"," ",
                                   "C","o","n","t","e","n","t",":">>)

\* python-docx stores a paragraph's text through lxml, which raises ValueError
\* on a control character
AddParagraphRaises(text) == \E i \in 1..Len(text) : text[i] = SOH

\* f' {attr_name}="{attr_value}"' for each attribute
AttribText(attrib) ==
    Flatten([i \in 1..Len(attrib) |->
               <<" ">> \o attrib[i][1] \o <<"=","\"">> \o attrib[i][2] \o <<"\"">>])

\* the paragraphs _add_xml_elements_to_document adds to doc
RECURSIVE _add_xml_elements_to_document(_, _)
_add_xml_elements_to_document(element, level) ==
    LET indent == Indent(level)
        tag_text == indent \o <<"<">> \o element.tag \o AttribText(element.attrib)
        text == Strip(OrEmpty(element.text))
    IN  IF element.tag = <<>> THEN <<>>
        ELSE IF text # <<>>
        THEN <<Paragraph("Normal", tag_text \o <<">">> \o text \o <<"<","/">> \o element.tag \o <<">">>)>>
        ELSE IF Len(element.children) = 0
        THEN <<Paragraph("Normal", tag_text \o <<"/",">">>)>>
        ELSE <<Paragraph("Normal", tag_text \o <<">">>)>>
             \o Flatten([i \in 1..Len(element.children) |->
                           _add_xml_elements_to_document(element.children[i], level + 1)])
             \o <<Paragraph("Normal", indent \o <<"<","/">> \o element.tag \o <<">">>)>>

\* lines 159-163: one paragraph for each line that is not blank
RawParagraphs(text) ==
    LET lines == NonBlank(SplitLines(text, <<>>))
    IN  [i \in 1..Len(lines) |-> Paragraph("Normal", lines[i])]

(***************************************************************************)
(* Exceptions and responses.                                               *)
(***************************************************************************)
NoException == [type |-> "none", status_code |-> 0, detail |-> <<>>]
HTTPException(status_code, detail) ==
    [type |-> "HTTPException", status_code |-> status_code, detail |-> detail]
\* any other exception, with str(e)
Exception(type, msg) == [type |-> type, status_code |-> 0, detail |-> <<msg>>]

NoResponse == [status_code |-> 0, detail |-> <<>>, filename |-> <<>>, body |-> <<>>]
ErrorResponse(status_code, detail) ==
    [status_code |-> status_code, detail |-> detail, filename |-> <<>>, body |-> <<>>]

\* a variant in which the generic handler catches the HTTPException too
handler_except_generic_only(e) ==
    ErrorResponse(500, <<"An unexpected error occurred: ">> \o e.detail)

\* lines 277-284: what the handler's except clauses make of an exception
handler_except(e) ==
    IF e.type = "HTTPException" THEN ErrorResponse(e.status_code, e.detail)
    ELSE ErrorResponse(500, <<"An unexpected error occurred: ">> \o e.detail)

(***************************************************************************)
(* The upload: content is the body's bytes, seen as what they decode to.   *)
(* valid_utf8: whether decode('utf-8') succeeds; bom: whether the bytes    *)
(* start with EF BB BF, which decode('utf-8') keeps as U+FEFF; text: the   *)
(* rest, which is empty, malformed, or the JSON text of a value.           *)
(***************************************************************************)
Body(valid_utf8, bom, kind, value) ==
    [valid_utf8 |-> valid_utf8, bom |-> bom, kind |-> kind, value |-> value]

UnicodeDecodeMsg == "'utf-8' codec can't decode byte 0xff in position 0: invalid start byte"
BomMsg == "Unexpected UTF-8 BOM (decode using utf-8-sig): line 1 column 1 (char 0)"
EmptyMsg == "Expecting value: line 1 column 1 (char 0)"
MalformedMsg == "Expecting property name enclosed in double quotes: line 1 column 2 (char 1)"

\* json.loads(content.decode('utf-8'))
loads_decoded(body) ==
    IF ~body.valid_utf8 THEN [ok |-> FALSE, value |-> JNull,
                              e |-> Exception("UnicodeDecodeError", UnicodeDecodeMsg)]
    ELSE IF body.bom THEN [ok |-> FALSE, value |-> JNull,
                           e |-> Exception("JSONDecodeError", BomMsg)]
    ELSE IF body.kind = "empty" THEN [ok |-> FALSE, value |-> JNull,
                                      e |-> Exception("JSONDecodeError", EmptyMsg)]
    ELSE IF body.kind = "malformed" THEN [ok |-> FALSE, value |-> JNull,
                                          e |-> Exception("JSONDecodeError", MalformedMsg)]
    ELSE [ok |-> TRUE, value |-> body.value, e |-> NoException]

DotJson == <<".","j","s","o","n">>
DotDocx == <<".","d","o","c","x">>

\* file.filename.replace('.json', '.docx')
output_filename(name) == Replace(name, DotJson, DotDocx)

(***************************************************************************)
(* The inputs of the model.                                                *)
(***************************************************************************)
\* object keys: every string over KeyChars up to MaxKeyLen, and two longer ones
KeyChars == {"a", "1", "_", "$", " "}
SampleKeys == { <<"x","_","y">>, <<"a","$","b">>, <<"b">> }
Keys == SeqsUpTo(KeyChars, MaxKeyLen) \cup SampleKeys

\* XML text: nothing or a declaration, then up to MaxPieces pieces, one after
\* the other; and a declaration that does not start the text
XmlPrefixes == { <<>>, XmlDecl, <<" ">> \o XmlDecl }
XmlPieces == { <<"<","a",">">>, <<"<","/","a",">">>, <<"<","b","/",">">>,
               <<"_">>, <<" ">>, <<"\n">>, <<SOH>> }
XmlStrings ==
    {p \o Flatten(ps) : p \in XmlPrefixes, ps \in SeqsUpTo(XmlPieces, MaxPieces)}
      \cup { <<"<","b","/",">">> \o XmlDecl, XmlDecl \o XmlDecl \o <<"<","b","/",">">> }

SampleStrings == { <<>>, <<"a">>, <<"a","$","b">>, <<"x","_","y">>, <<" ">>,
                   <<"<","&",">","\"">>, <<"a","\n","\n","b">> }
Scalars == {JNull, JBool(TRUE), JBool(FALSE), JInt(-1), JInt(0), JInt(12)}
               \cup {JStr(x) : x \in SampleStrings}

\* the elements of the arrays
Items == {JNull, JInt(1), JInt(2), JStr(<<"a","$","b">>),
          JDict(<< <<<<"c">>, JInt(1)>> >>), JList(<<JInt(1)>>)}
Lists == {JList(items) : items \in SeqsUpTo(Items, MaxListLen)}

K == <<"k">>
\* one key, one or two keys, and the shapes around the XML passthrough
ObjectsOfOneKey == {JDict(<< <<k, x>> >>) : k \in Keys, x \in Scalars}
ObjectsWithArray ==
    {JDict(<< <<k, x>> >>) : k \in SampleKeys, x \in Lists}
      \cup {JDict(<< <<<<"a">>, JInt(1)>>, <<k, x>> >>) : k \in {<<"b">>, <<"1">>}, x \in Lists}
WrapShapes == {"array of one object of one key", "array of two", "object of two keys",
               "array of the value", "object"}
WrapAs(shape, x) ==
    CASE shape = "array of one object of one key" -> JList(<<JDict(<< <<K, x>> >>)>>)
      [] shape = "array of two" -> JList(<<JDict(<< <<K, x>> >>), JInt(1)>>)
      [] shape = "object of two keys" -> JList(<<JDict(<< <<K, x>>, <<<<"j">>, JInt(1)>> >>)>>)
      [] shape = "array of the value" -> JList(<<x>>)
      [] OTHER -> JDict(<< <<K, x>> >>)
Wrapped(X) == {WrapAs(shape, x) : shape \in WrapShapes, x \in X}
JsonValues ==
    Scalars \cup Lists \cup ObjectsOfOneKey \cup ObjectsWithArray
      \cup Wrapped(Scalars)
      \cup Wrapped({JStr(x) : x \in XmlStrings})

\* the values the uploads carry
UploadXmlStrings ==
    {XmlDecl \o Flatten(ps) : ps \in SeqsUpTo({<<"<","b","/",">">>, <<"\n">>, <<SOH>>}, MaxPieces)}
UploadValues ==
    {JNull, JInt(12), JList(<<>>), JList(<<JInt(1)>>)}
      \cup {JDict(<< <<k, x>> >>) : k \in SeqsUpTo(KeyChars, 1),
                                    x \in {JNull, JStr(<<"a","$","b">>), JStr(<<SOH>>)}}
      \cup {JList(<<JDict(<< <<K, JStr(x)>> >>)>>) : x \in UploadXmlStrings}
Bodies ==
    {Body(FALSE, FALSE, "malformed", JNull)}
      \cup {Body(TRUE, bom, kind, JNull) : bom \in BOOLEAN, kind \in {"empty", "malformed"}}
      \cup {Body(TRUE, bom, "json", x) : bom \in BOOLEAN, x \in UploadValues}

NameParts == { <<"a">>, DotJson, <<".","t","x","t">> }
Filenames == {Flatten(ps) : ps \in SeqsUpTo(NameParts, MaxNameParts)}

\* parsed trees: leaves, elements of leaves, and elements of those
Texts == {None, Some(<<>>), Some(<<" ">>), Some(<<"t">>), Some(<<" ","t","\n">>)}
Attribs == { <<>>, << <<<<"k">>, <<"v">>>> >> }
Leaves == {[tag |-> <<"b">>, attrib |-> at, text |-> tx, children |-> <<>>, tail |-> None] :
             at \in Attribs, tx \in {None, Some(<<" ">>), Some(<<"t">>)}}
Inner == {[tag |-> <<"a">>, attrib |-> at, text |-> tx, children |-> ch, tail |-> None] :
            at \in Attribs, tx \in Texts, ch \in SeqsUpTo(Leaves, MaxChildren)}
Outer == {[tag |-> <<"r">>, attrib |-> <<>>, text |-> tx, children |-> ch, tail |-> None] :
            tx \in {None, Some(<<"t">>)}, ch \in SeqsUpTo(Inner, 1)}
Elements == Leaves \cup Inner \cup Outer

(***************************************************************************)
(* The state machine.  pc is the position in the request: the handler      *)
(* (validate, read), convert_json_to_xml (convert, tostring, prettify),    *)
(* create_docx_from_xml (xml_ready, render, fallback, save), the response  *)
(* (docx_ready, raised, done).                                             *)
(***************************************************************************)
\* a request arrives at POST /convert-json-to-docx/
Init ==
    /\ pc = "validate"
    /\ filename \in Filenames
    /\ content \in Bodies
    /\ json_data = JNull
    /\ via = "none"
    /\ root_element = Element(<<>>)
    /\ rough_string = <<>>
    /\ xml_content = <<>>
    /\ root = Element(<<>>)
    /\ doc = <<>>
    /\ exc = NoException
    /\ response = NoResponse

\* convert_json_to_xml is called with a JSON value
InitConvert ==
    /\ pc = "convert"
    /\ filename = <<>>
    /\ content = Body(TRUE, FALSE, "json", JNull)
    /\ json_data \in JsonValues
    /\ via = "none"
    /\ root_element = Element(<<>>)
    /\ rough_string = <<>>
    /\ xml_content = <<>>
    /\ root = Element(<<>>)
    /\ doc = <<>>
    /\ exc = NoException
    /\ response = NoResponse

\* create_docx_from_xml is called with a string
InitDocx ==
    /\ pc = "xml_ready"
    /\ filename = <<>>
    /\ content = Body(TRUE, FALSE, "json", JNull)
    /\ json_data = JNull
    /\ via = "none"
    /\ root_element = Element(<<>>)
    /\ rough_string = <<>>
    /\ xml_content \in XmlStrings
    /\ root = Element(<<>>)
    /\ doc = <<>>
    /\ exc = NoException
    /\ response = NoResponse

\* _add_xml_elements_to_document is called with a parsed tree, at level 0
InitRender ==
    /\ pc = "render"
    /\ filename = <<>>
    /\ content = Body(TRUE, FALSE, "json", JNull)
    /\ json_data = JNull
    /\ via = "none"
    /\ root_element = Element(<<>>)
    /\ rough_string = <<>>
    /\ xml_content = <<>>
    /\ root \in Elements
    /\ doc = <<Heading>>
    /\ exc = NoException
    /\ response = NoResponse

\* lines 235-239
ValidateFilename ==
    /\ pc = "validate"
    /\ IF ~EndsWith(filename, DotJson)
       THEN /\ exc' = HTTPException(400, <<"Only JSON files are accepted">>)
            /\ pc' = "raised"
       ELSE /\ pc' = "read"
            /\ UNCHANGED exc
    /\ UNCHANGED <<filename, content, json_data, via, root_element, rough_string,
                   xml_content, root, doc, response>>

\* lines 242-254
ReadAndParse ==
    /\ pc = "read"
    /\ LET r == loads_decoded(content)
       IN  IF r.ok
           THEN /\ json_data' = r.value
                /\ pc' = "convert"
                /\ UNCHANGED exc
           ELSE /\ exc' = HTTPException(400,
                            <<IF r.e.type = "JSONDecodeError" THEN "Invalid JSON format: "
                              ELSE "File encoding error: ">> \o r.e.detail)
                /\ pc' = "raised"
                /\ UNCHANGED json_data
    /\ UNCHANGED <<filename, content, via, root_element, rough_string,
                   xml_content, root, doc, response>>

\* lines 97-101: the value the passthrough looks at
IsWrappedXml(data) ==
    /\ data.t = "list" /\ Len(data.v) = 1
    /\ data.v[1].t = "dict" /\ Len(data.v[1].v) = 1
    /\ is_xml_content(data.v[1].v[1][2])

\* lines 97-104
PassThrough ==
    /\ pc = "convert"
    /\ IsWrappedXml(json_data)
    /\ xml_content' = apply_replacements(json_data.v[1].v[1][2].v)
    /\ via' = "passthrough"
    /\ pc' = "xml_ready"
    /\ UNCHANGED <<filename, content, json_data, root_element, rough_string,
                   root, doc, exc, response>>

\* line 107
BuildTree ==
    /\ pc = "convert"
    /\ ~IsWrappedXml(json_data)
    /\ root_element' = json_to_xml_element(json_data, <<"d","o","c","u","m","e","n","t">>)
    /\ via' = "tree"
    /\ pc' = "tostring"
    /\ UNCHANGED <<filename, content, json_data, rough_string, xml_content,
                   root, doc, exc, response>>

\* line 110
TreeToString ==
    /\ pc = "tostring"
    /\ rough_string' = _serialize_xml(root_element)
    /\ pc' = "prettify"
    /\ UNCHANGED <<filename, content, json_data, via, root_element, xml_content,
                   root, doc, exc, response>>

\* lines 113-118, and 120-122 when minidom.parseString raises
Prettify ==
    /\ pc = "prettify"
    /\ LET reparsed == ParseXML(rough_string)
       IN  IF reparsed.ok
           THEN /\ xml_content' = JoinLines(NonBlank(SplitLines(toprettyxml(reparsed.root), <<>>)))
                /\ pc' = "xml_ready"
                /\ UNCHANGED exc
           ELSE /\ exc' = HTTPException(500, <<"XML conversion failed: ", "ExpatError">>)
                /\ pc' = "raised"
                /\ UNCHANGED xml_content
    /\ UNCHANGED <<filename, content, json_data, via, root_element, rough_string,
                   root, doc, response>>

\* lines 140-148, and 153-154 when ET.fromstring raises ParseError
CreateDocument ==
    /\ pc = "xml_ready"
    /\ doc' = <<Heading>>
    /\ LET parsed == ParseXML(xml_content)
       IN  IF parsed.ok
           THEN root' = parsed.root /\ pc' = "render"
           ELSE UNCHANGED root /\ pc' = "fallback"
    /\ UNCHANGED <<filename, content, json_data, via, root_element, rough_string,
                   xml_content, exc, response>>

\* line 151
Render ==
    /\ pc = "render"
    /\ doc' = doc \o _add_xml_elements_to_document(root, 0)
    /\ pc' = "save"
    /\ UNCHANGED <<filename, content, json_data, via, root_element, rough_string,
                   xml_content, root, exc, response>>

\* lines 156-163, and 172-174 when add_paragraph raises
Fallback ==
    /\ pc = "fallback"
    /\ LET paragraphs == RawParagraphs(xml_content)
       IN  IF \E i \in 1..Len(paragraphs) : AddParagraphRaises(paragraphs[i].text)
           THEN /\ exc' = HTTPException(500, <<"DOCX creation failed: ", "ValueError">>)
                /\ pc' = "raised"
                /\ UNCHANGED doc
           ELSE /\ doc' = doc \o <<RawMarker>> \o paragraphs
                /\ pc' = "save"
                /\ UNCHANGED exc
    /\ UNCHANGED <<filename, content, json_data, via, root_element, rough_string,
                   xml_content, root, response>>

\* lines 166-170
Save ==
    /\ pc = "save"
    /\ pc' = "docx_ready"
    /\ UNCHANGED <<filename, content, json_data, via, root_element, rough_string,
                   xml_content, root, doc, exc, response>>

\* lines 267-275
Respond ==
    /\ pc = "docx_ready"
    /\ response' = [status_code |-> 200, detail |-> <<>>,
                    filename |-> output_filename(filename), body |-> doc]
    /\ pc' = "done"
    /\ UNCHANGED <<filename, content, json_data, via, root_element, rough_string,
                   xml_content, root, doc, exc>>

\* lines 277-284
HandleException ==
    /\ pc = "raised"
    /\ response' = handler_except(exc)
    /\ pc' = "done"
    /\ UNCHANGED <<filename, content, json_data, via, root_element, rough_string,
                   xml_content, root, doc, exc>>

NextConvert == PassThrough \/ BuildTree \/ TreeToString \/ Prettify
NextDocx == CreateDocument \/ Render \/ Fallback \/ Save
NextRender == Render \/ Save
Next == ValidateFilename \/ ReadAndParse \/ NextConvert \/ NextDocx \/ Respond
          \/ HandleException

\* the handler, from the upload to the response
Spec == Init /\ [][Next]_vars
\* convert_json_to_xml alone
SpecConvert == InitConvert /\ [][NextConvert]_vars
\* create_docx_from_xml alone
SpecDocx == InitDocx /\ [][NextDocx]_vars
\* _add_xml_elements_to_document alone
SpecRender == InitRender /\ [][NextRender]_vars

(***************************************************************************)
(* Properties.                                                             *)
(***************************************************************************)
\* the substitution as one pass over the characters
CharMap(s) ==
    [i \in 1..Len(s) |-> IF s[i] = "_" THEN ":" ELSE IF s[i] = "$" THEN "@" ELSE s[i]]

Tags(elems) == [i \in 1..Len(elems) |-> elems[i].tag]

\* the tree of json_data has been built
TreeBuilt == via = "tree"

RECURSIVE KeyNamedSiblings(_, _)
KeyNamedSiblings(data, elem) ==
    CASE data.t = "dict" ->
           LET expected == Flatten([i \in 1..Len(data.v) |->
                              IF data.v[i][2].t = "list" /\ data.v[i][2].v # <<>>
                              THEN [j \in 1..Len(data.v[i][2].v) |-> <<data.v[i][1], data.v[i][2].v[j]>>]
                              ELSE <<data.v[i]>>])
           IN  /\ Len(elem.children) = Len(expected)
               /\ \A i \in 1..Len(expected) :
                    /\ elem.children[i].tag = CleanElementName(expected[i][1])
                    /\ KeyNamedSiblings(expected[i][2], elem.children[i])
      [] data.t = "list" ->
           \A i \in 1..Len(data.v) :
               i <= Len(elem.children) => KeyNamedSiblings(data.v[i], elem.children[i])
      [] OTHER ->
           elem.children = <<>> /\ elem.text = Some(apply_replacements(PyStr(data)))

\* C1, as the claim states it: for every object that maps a key k to an array,
\* each array element yields, in array order, one element named after k that is
\* a direct child of the object's element (an object its mapped children, a
\* scalar its string as text).  An array without elements is left aside.
C1_KeyNamedSiblings == TreeBuilt => KeyNamedSiblings(json_data, root_element)

RECURSIVE ArrayWrapped(_, _)
ArrayWrapped(data, elem) ==
    CASE data.t = "dict" ->
           /\ Len(elem.children) = Len(data.v)
           /\ \A i \in 1..Len(data.v) :
                /\ elem.children[i].tag = CleanElementName(data.v[i][1])
                /\ ArrayWrapped(data.v[i][2], elem.children[i])
      [] data.t = "list" ->
           /\ Len(elem.children) = Len(data.v)
           /\ elem.text = None
           /\ \A j \in 1..Len(data.v) :
                /\ elem.children[j].tag = <<"i","t","e","m",":">> \o IntStr(j - 1)
                /\ ArrayWrapped(data.v[j], elem.children[j])
      [] OTHER ->
           elem.children = <<>> /\ elem.text = Some(apply_replacements(PyStr(data)))

\* C1, amended: for every object that maps a key k to an array, the array yields
\* exactly one element named after k, a direct child of the object's element,
\* and each array element yields, in array order, one child of that element
\* named item:<index> (an object its mapped children under it, a scalar its
\* string as text).
C1_ArrayWrapped == TreeBuilt => ArrayWrapped(json_data, root_element)

A1B12 == JDict(<< <<<<"a">>, JInt(1)>>, <<<<"b">>, JList(<<JInt(1), JInt(2)>>)>> >>)

\* {"a": 1, "b": [1, 2]} has been mapped: the root's children are a and b, and
\* b's are item:0 and item:1 with the texts 1 and 2
C1_Witness ==
    /\ pc = "tostring"
    /\ json_data = A1B12
    /\ Tags(root_element.children) = << <<"a">>, <<"b">> >>
    /\ Tags(root_element.children[2].children)
         = << <<"i","t","e","m",":","0">>, <<"i","t","e","m",":","1">> >>
    /\ root_element.children[2].children[2].text = Some(<<"2">>)

NameOK(name) ==
    /\ name # <<>>
    /\ \A i \in 1..Len(name) : name[i] \in NameChars
    /\ name[1] \notin DigitSet

RECURSIVE NamesOK(_)
NamesOK(elem) == NameOK(elem.tag) /\ \A i \in 1..Len(elem.children) : NamesOK(elem.children[i])

\* C2, as the claim states it: every element name of the tree json_to_xml_element
\* returns is non-empty, holds only characters of [A-Za-z0-9:@._-] and does not
\* start with a digit.
C2_NamesValid == TreeBuilt => NamesOK(root_element)

\* the name the element of a key gets: the substitution, then the sanitising
NameOfKey(key) ==
    LET clean == Sanitize(CharMap(key))
    IN  IF clean # <<>> /\ clean[1] \in DigitSet THEN ItemPrefix \o clean ELSE clean

RECURSIVE Substituted(_, _)
Substituted(data, elem) ==
    CASE data.t = "dict" ->
           /\ Len(elem.children) = Len(data.v)
           /\ \A i \in 1..Len(data.v) :
                /\ apply_replacements(data.v[i][1]) = CharMap(data.v[i][1])
                /\ elem.children[i].tag = NameOfKey(data.v[i][1])
                /\ Substituted(data.v[i][2], elem.children[i])
      [] data.t = "list" ->
           /\ Len(elem.children) = Len(data.v)
           /\ \A i \in 1..Len(data.v) : Substituted(data.v[i], elem.children[i])
      [] OTHER ->
           /\ apply_replacements(PyStr(data)) = CharMap(PyStr(data))
           /\ elem.text = Some(CharMap(PyStr(data)))

\* C3: apply_replacements is the one-pass map of '_' to ':' and '$' to '@', and
\* the mapper applies it to every object key it names an element after and to
\* every scalar text.
C3_OnePassSubstitution == TreeBuilt => Substituted(json_data, root_element)

\* {"x_y": "a$b"} has been mapped to an element x:y with the text a@b
C3_Witness ==
    /\ pc = "tostring"
    /\ json_data = JDict(<< <<<<"x","_","y">>, JStr(<<"a","$","b">>)>> >>)
    /\ root_element.children[1].tag = <<"x",":","y">>
    /\ root_element.children[1].text = Some(<<"a","@","b">>)

\* s, trimmed, starts with <?xml and ends with >
TrimmedIsXml(s) ==
    \E i, j \in 1..Len(s) :
        /\ \A k \in 1..(i - 1) : s[k] \in Whitespace
        /\ \A k \in (j + 1)..Len(s) : s[k] \in Whitespace
        /\ i + 4 <= Len(s)
        /\ <<s[i], s[i + 1], s[i + 2], s[i + 3], s[i + 4]>> = <<"<","?","x","m","l">>
        /\ s[j] = ">"

\* an array of one object of one key whose value is such a string
BypassShape(data) ==
    /\ data.t = "list" /\ Len(data.v) = 1
    /\ data.v[1].t = "dict" /\ Len(data.v[1].v) = 1
    /\ data.v[1].v[1][2].t = "str"
    /\ TrimmedIsXml(data.v[1].v[1][2].v)

\* C4: convert_json_to_xml bypasses the tree construction exactly for an array of
\* one object of one key whose value is a string that, trimmed, starts with
\* <?xml and ends with >; the output is then that string with the substitution
\* applied and nothing else changed; every other output comes from the tree.
C4_Bypass ==
    pc # "convert" =>
        /\ via = "passthrough" <=> BypassShape(json_data)
        /\ via = "passthrough" =>
             /\ pc = "xml_ready"
             /\ xml_content = CharMap(json_data.v[1].v[1][2].v)
             /\ root_element = Element(<<>>) /\ rough_string = <<>>
        /\ via # "passthrough" =>
             /\ via = "tree"
             /\ root_element.tag = <<"d","o","c","u","m","e","n","t">>
             /\ pc = "xml_ready" => /\ rough_string # <<>>
                                    /\ StartsWith(xml_content, XmlDeclMinidom)

\* [{"k": " <?xml version=\"1.0\"?>_<a>\n"}] went through untrimmed, its _ a :
C4_Witness ==
    /\ pc = "xml_ready"
    /\ via = "passthrough"
    /\ json_data = JList(<<JDict(<< <<K, JStr(XmlDecl \o <<"_","<","a",">">>)>> >>)>>)
    /\ xml_content = XmlDecl \o <<":","<","a",">">>

\* the string form of a value, the empty string for null
StringForm(d) == IF d.t = "null" THEN <<>> ELSE PyStr(d)

RECURSIVE ScalarsAsText(_, _)
ScalarsAsText(data, elem) ==
    IF IsScalar(data)
    THEN elem.children = <<>> /\ elem.text = Some(apply_replacements(StringForm(data)))
    ELSE \A i \in 1..Len(data.v) :
            i <= Len(elem.children) =>
                ScalarsAsText(IF data.t = "dict" THEN data.v[i][2] ELSE data.v[i], elem.children[i])

\* C5, as the claim states it: the element of a scalar has no children and the
\* string form of the value as its text, the empty string for null.
C5_ScalarText == TreeBuilt => ScalarsAsText(json_data, root_element)

\* C6, as the claim states it: for a string that is not well-formed XML,
\* create_docx_from_xml does not raise, and the document is the heading, the
\* 'Raw XML Content' marker, then one paragraph for each line that is not blank.
C6_FallbackNeverRaises ==
    (~ParseXML(xml_content).ok /\ pc \notin {"xml_ready", "fallback"}) =>
        /\ pc # "raised"
        /\ doc = <<Heading, RawMarker>> \o RawParagraphs(xml_content)

\* the diagnostic of the decoder or the parser for a body it rejects
Diagnostic(body) ==
    IF ~body.valid_utf8 THEN UnicodeDecodeMsg
    ELSE IF body.bom THEN BomMsg
    ELSE IF body.kind = "empty" THEN EmptyMsg
    ELSE MalformedMsg
Rejected(body) == ~body.valid_utf8 \/ body.bom \/ body.kind # "json"
IsJsonName(name) ==
    Len(name) >= 5 /\ [i \in 1..5 |-> name[Len(name) - 5 + i]] = <<".","j","s","o","n">>

\* C7: a request ends in one outcome: 400 for a filename that does not end in
\* .json, whatever the body; else 400 with the diagnostic for a body that does
\* not decode or parse; else 500 with the message of the failure of the mapping,
\* the serialisation or the document; else 200 with the document.
C7_Outcome ==
    /\ pc # "done" => response = NoResponse
    /\ pc = "done" =>
         CASE ~IsJsonName(filename) ->
                /\ response.status_code = 400
                /\ response.detail = <<"Only JSON files are accepted">>
           [] Rejected(content) ->
                /\ response.status_code = 400
                /\ \E i \in 1..Len(response.detail) : response.detail[i] = Diagnostic(content)
           [] exc # NoException ->
                /\ response.status_code = 500
                /\ response.detail = exc.detail /\ Len(exc.detail) = 2
                /\ json_data = content.value
           [] OTHER ->
                /\ response.status_code = 200
                /\ response.body = doc /\ doc # <<>>

\* a body that does not parse, under a name that ends in .json, was answered 400
C7_Witness ==
    /\ pc = "done"
    /\ IsJsonName(filename)
    /\ content.valid_utf8 /\ ~content.bom /\ content.kind = "malformed"
    /\ response.status_code = 400
    /\ response.detail = <<"Invalid JSON format: ", MalformedMsg>>

\* C8, as the claim states it: a body that is a byte-order mark followed by
\* well-formed JSON text parses to the value of the text, and is not rejected
\* with 400.
C8_BomAccepted ==
    (/\ content.valid_utf8 /\ content.bom /\ content.kind = "json"
     /\ pc \notin {"validate", "read"} /\ IsJsonName(filename)) =>
        /\ json_data = content.value
        /\ exc.status_code # 400

\* the lines of the claim: text and no children on one line, neither as a
\* self-closing line, every other element as open tag, children, closing tag
RECURSIVE TreeLines(_, _)
TreeLines(element, level) ==
    LET open == Indent(level) \o <<"<">> \o element.tag \o AttribText(element.attrib)
        close == <<"<","/">> \o element.tag \o <<">">>
        text == Strip(OrEmpty(element.text))
    IN  IF text # <<>> /\ element.children = <<>>
        THEN <<Paragraph("Normal", open \o <<">">> \o text \o close)>>
        ELSE IF element.children = <<>>
        THEN <<Paragraph("Normal", open \o <<"/",">">>)>>
        ELSE <<Paragraph("Normal", open \o <<">">>)>>
             \o Flatten([i \in 1..Len(element.children) |->
                           TreeLines(element.children[i], level + 1)])
             \o <<Paragraph("Normal", Indent(level) \o close)>>

\* C9, as the claim states it: every element of the parsed tree is rendered,
\* depth first, two spaces per level; an element that has both text and
\* children as open tag, children, closing tag.
C9_EveryElementRendered ==
    pc \in {"save", "docx_ready"} => doc = <<Heading>> \o TreeLines(root, 0)

\* C10, as the claim states it: the filename of the 200 response is the upload's
\* name with only its trailing .json replaced by .docx.
C10_BaseNameDocx ==
    (pc = "done" /\ response.status_code = 200) =>
        response.filename = SubSeq(filename, 1, Len(filename) - 5) \o <<".","d","o","c","x">>

====
